---- MODULE Spec2Model ----
(***************************************************************************)
(* Model of src/main.py: the pairwise comparison and per-anchor grouping   *)
(* pass of generate_similarity_groups, its progress accounting and its     *)
(* report write.                                                           *)
(*                                                                         *)
(* Indices i, j are 0-based as in the Python source; sequences are 1-based *)
(* so image_files[i] of the source is image_files[i + 1] here.             *)
(* A float score raw/256 is kept as the exact fraction <<raw, 256>>; the   *)
(* threshold is a fraction <<num, den>> with den > 0.                      *)
(***************************************************************************)
EXTENDS Integers, Sequences, FiniteSets, TLC

\* ---------------------------------------------------------------- bounds
MaxImages == 3

\* ------------------------------------------------------ program constants
\* imagehash.phash(image) with the default hash_size of 8: 8 * 8 bits
HashBits == 64
\* the divisor of line 56
Divisor == 256

\* ------------------------------------------------------------ input sets
\* Python's None, for a label or a score not yet set
None == <<>>
\* output_csv before open(output_csv, 'w')
NotOpened == [opened |-> FALSE, rows |-> <<>>]

\* fingerprints are bit-vectors of length HashBits, kept as the set of 1 bits
ZeroHash == {}
OneBitHash == {1}
OnesHash == 1..HashBits
Fingerprints == {ZeroHash, OneBitHash, OnesHash}

\* what a discovered file holds: a decodable image (its fingerprint) or garbage
Corrupt == [ok |-> FALSE, hash |-> {}]
Contents == [ok : {TRUE}, hash : Fingerprints] \cup {Corrupt}

BaseNames == {"a.jpg", "b.png"}

\* similarity_threshold values (argparse type=float accepts any float)
Thresholds == {<<0, 1>>, <<1, 256>>, <<1, 4>>, <<1, 2>>, <<1, 1>>, <<2, 1>>}

\* ------------------------------------------------------------- fractions
FracGE(a, b) == a[1] * b[2] >= b[1] * a[2]
FracLT(a, b) == a[1] * b[2] < b[1] * a[2]

\* ------------------------------------------------------------ variables
VARIABLES
  image_files,          \* list of discovered paths, a path is <<dir, base>>
  disk,                 \* path -> content of the file
  similarity_threshold, \* the threshold argument
  writable,             \* whether open(output_csv, 'w') succeeds
  similarity_groups,    \* dict in insertion order: seq of [label, images]
  similarity_group,     \* label of the group open for the current i, or None
  similarity_index,     \* last normalized score computed (line 56), or None
  i, j,                 \* loop indices
  progress,             \* the progress counter
  eta_calls,            \* the ETA computations of lines 70-72, in order
  calls,                \* calls made to calculate_similarity_index, in order
  opened_by,            \* history: opened_by[k] = the i that created group k
  csvfile,              \* NotOpened or the rows written to output_csv
  pc,                   \* control position
  threshold2,           \* second run (same images, other threshold)
  similarity_groups2,
  similarity_group2,
  opened_by2

runvars == <<image_files, disk, similarity_threshold, writable,
             similarity_groups, similarity_group, similarity_index, i, j,
             progress, eta_calls, calls, opened_by, csvfile, pc>>
run2vars == <<threshold2, similarity_groups2, similarity_group2, opened_by2>>
vars == <<runvars, run2vars>>

\* ------------------------------------------------------- pure functions
\* os.path.basename
basename(path) == path[2]

\* hash1 - hash2 of imagehash: the Hamming distance
HashDiff(hash1, hash2) == Cardinality((hash1 \ hash2) \cup (hash2 \ hash1))

\* Image.open / phash of lines 10-13 succeed on the file
Decodes(path) == disk[path].ok

\* lines 9-14: raises when a file does not decode, else returns the distance
calculate_similarity_index(image1_path, image2_path) ==
  IF Decodes(image1_path) /\ Decodes(image2_path)
  THEN [raised |-> FALSE,
        value |-> HashDiff(disk[image1_path].hash, disk[image2_path].hash)]
  ELSE [raised |-> TRUE, value |-> 0]

\* line 56
Normalize(raw) == <<raw, Divisor>>

\* line 60
Qualifies_le(score, threshold) == FracGE(threshold, score)
Qualifies_gt(score, threshold) == FracLT(threshold, score)
Qualifies(score, threshold) == FracGE(score, threshold)

\* line 62
Label(n) == <<"Similarity Group", n>>
NewLabel_len(groups) == Label(Len(groups))
NewLabel(groups) == Label(Len(groups) + 1)

\* dict membership (line 63)
HasKey(groups, label) == \E k \in 1..Len(groups) : groups[k].label = label

\* lines 61-62
GroupLabel(group, groups) == IF group = None THEN NewLabel(groups) ELSE group

\* lines 63-66
AppendPair(groups, label, name_i, name_j, score) ==
  LET g0 == IF HasKey(groups, label) THEN groups
            ELSE Append(groups, [label |-> label, images |-> <<>>])
  IN [k \in 1..Len(g0) |->
        IF g0[k].label = label
        THEN [g0[k] EXCEPT !.images =
                Append(Append(@, <<name_i, score>>), <<name_j, score>>)]
        ELSE g0[k]]

\* history of line 64: who created the group
OpenedAfter(groups, label, opened, anchor) ==
  IF HasKey(groups, label) THEN opened ELSE Append(opened, anchor)

\* lines 79-83
Header == <<"Similarity Group", "Image File", "Similarity Index">>
RECURSIVE GroupRows(_, _)
GroupRows(label, images) ==
  IF images = <<>> THEN <<>>
  ELSE <<<<label, Head(images)[1], Head(images)[2]>>>>
         \o GroupRows(label, Tail(images))
RECURSIVE ReportRows(_)
ReportRows(groups) ==
  IF groups = <<>> THEN <<>>
  ELSE GroupRows(Head(groups).label, Head(groups).images)
         \o ReportRows(Tail(groups))

\* line 68
NextProgress_stuck(p) == p
NextProgress(p) == p + 1

N == Len(image_files)

\* ------------------------------------------------------------------ Init
Paths(n) == {f \in [1..n -> (1..n) \X BaseNames] : \A k \in 1..n : f[k][1] = k}

InitRun ==
  /\ \E n \in 0..MaxImages :
       /\ image_files \in Paths(n)
       /\ disk \in [{image_files[k] : k \in 1..n} -> Contents]
  /\ similarity_threshold \in Thresholds
  /\ writable \in BOOLEAN
  /\ similarity_groups = <<>>
  /\ similarity_group = None
  /\ similarity_index = None
  /\ i = 0
  /\ j = 0
  /\ progress = 0
  /\ eta_calls = <<>>
  /\ calls = <<>>
  /\ opened_by = <<>>
  /\ csvfile = NotOpened
  /\ pc = "outer"

Init ==
  /\ InitRun
  /\ threshold2 = None
  /\ similarity_groups2 = <<>>
  /\ similarity_group2 = None
  /\ opened_by2 = <<>>

\* --------------------------------------------------------------- actions
\* lines 52-54: next value of i, similarity_group = None, start of the j loop
StartAnchor_fromZero ==
  /\ pc = "outer"
  /\ i < N
  /\ similarity_group' = None
  /\ j' = 0
  /\ pc' = "inner"
  /\ UNCHANGED <<image_files, disk, similarity_threshold, writable,
                 similarity_groups, similarity_index, i, progress, eta_calls,
                 calls, opened_by, csvfile>>
StartAnchor_keep ==
  /\ pc = "outer"
  /\ i < N
  /\ j' = i + 1
  /\ pc' = "inner"
  /\ UNCHANGED <<image_files, disk, similarity_threshold, writable,
                 similarity_groups, similarity_group, similarity_index, i,
                 progress, eta_calls, calls, opened_by, csvfile>>
StartAnchorRun ==
  /\ pc = "outer"
  /\ i < N
  /\ similarity_group' = None
  /\ j' = i + 1
  /\ pc' = "inner"
  /\ UNCHANGED <<image_files, disk, similarity_threshold, writable,
                 similarity_groups, similarity_index, i, progress, eta_calls,
                 calls, opened_by, csvfile>>

\* lines 55-66: one iteration of the j loop, both images decode
CompareRun ==
  /\ pc = "inner"
  /\ j < N
  /\ LET result == calculate_similarity_index(image_files[i + 1],
                                              image_files[j + 1])
         score == Normalize(result.value)
         label == GroupLabel(similarity_group, similarity_groups)
     IN /\ ~result.raised
        /\ similarity_index' = score
        /\ calls' = Append(calls, <<i, j>>)
        /\ IF Qualifies(score, similarity_threshold)
           THEN /\ similarity_group' = label
                /\ similarity_groups' =
                     AppendPair(similarity_groups, label,
                                basename(image_files[i + 1]),
                                basename(image_files[j + 1]), score)
                /\ opened_by' = OpenedAfter(similarity_groups, label, opened_by, i)
           ELSE UNCHANGED <<similarity_group, similarity_groups, opened_by>>
  /\ j' = j + 1
  /\ UNCHANGED <<image_files, disk, similarity_threshold, writable, i,
                 progress, eta_calls, csvfile, pc>>

\* lines 55, 10-11: Image.open raises, the exception leaves the function
DecodeFail_skip ==
  /\ pc = "inner"
  /\ j < N
  /\ calculate_similarity_index(image_files[i + 1], image_files[j + 1]).raised
  /\ calls' = Append(calls, <<i, j>>)
  /\ j' = j + 1
  /\ UNCHANGED <<image_files, disk, similarity_threshold, writable,
                 similarity_groups, similarity_group, similarity_index, i,
                 progress, eta_calls, opened_by, csvfile, pc>>
DecodeFailRun ==
  /\ pc = "inner"
  /\ j < N
  /\ calculate_similarity_index(image_files[i + 1], image_files[j + 1]).raised
  /\ calls' = Append(calls, <<i, j>>)
  /\ pc' = "aborted"
  /\ UNCHANGED <<image_files, disk, similarity_threshold, writable,
                 similarity_groups, similarity_group, similarity_index, i, j,
                 progress, eta_calls, opened_by, csvfile>>

\* lines 68-74: the j loop is exhausted; progress and ETA, then the next i
AdvanceProgressRun ==
  /\ pc = "inner"
  /\ j >= N
  /\ progress' = NextProgress(progress)
  /\ eta_calls' = Append(eta_calls, [completed |-> progress',
                                      total |-> N,
                                      divided |-> progress' > 0,
                                      i |-> i])
  /\ i' = i + 1
  /\ pc' = "outer"
  /\ UNCHANGED <<image_files, disk, similarity_threshold, writable,
                 similarity_groups, similarity_group, similarity_index, j,
                 calls, opened_by, csvfile>>

\* lines 77-83: the i loop is exhausted; the report is opened and written
WriteReportRun ==
  /\ pc = "outer"
  /\ i >= N
  /\ writable
  /\ csvfile' = [opened |-> TRUE,
                 rows |-> <<Header>> \o ReportRows(similarity_groups)]
  /\ pc' = "done"
  /\ UNCHANGED <<image_files, disk, similarity_threshold, writable,
                 similarity_groups, similarity_group, similarity_index, i, j,
                 progress, eta_calls, calls, opened_by>>

\* line 77: open(output_csv, 'w') raises
WriteFail_early ==
  /\ pc = "outer"
  /\ ~writable
  /\ pc' = "io_error"
  /\ UNCHANGED <<image_files, disk, similarity_threshold, writable,
                 similarity_groups, similarity_group, similarity_index, i, j,
                 progress, eta_calls, calls, opened_by, csvfile>>
WriteFailRun ==
  /\ pc = "outer"
  /\ i >= N
  /\ ~writable
  /\ pc' = "io_error"
  /\ UNCHANGED <<image_files, disk, similarity_threshold, writable,
                 similarity_groups, similarity_group, similarity_index, i, j,
                 progress, eta_calls, calls, opened_by, csvfile>>

StartAnchor == StartAnchorRun /\ UNCHANGED run2vars
Compare == CompareRun /\ UNCHANGED run2vars
DecodeFail == DecodeFailRun /\ UNCHANGED run2vars
AdvanceProgress == AdvanceProgressRun /\ UNCHANGED run2vars
WriteReport == WriteReportRun /\ UNCHANGED run2vars
WriteFail == WriteFailRun /\ UNCHANGED run2vars

Next ==
  \/ StartAnchor
  \/ Compare
  \/ DecodeFail
  \/ AdvanceProgress
  \/ WriteReport
  \/ WriteFail

Spec == Init /\ [][Next]_vars

\* the interpreter runs the single thread until it returns or raises
FairSpec == Init /\ [][Next]_vars /\ WF_vars(Next)

\* ------------------------------------------ two runs over the same images
\* The same pass run side by side for a second, strictly larger threshold:
\* lines 60-66 applied to the second run's groups with the same score.
InitBoth ==
  /\ InitRun
  /\ threshold2 \in Thresholds
  /\ FracLT(similarity_threshold, threshold2)
  /\ similarity_groups2 = <<>>
  /\ similarity_group2 = None
  /\ opened_by2 = <<>>

StartAnchorBoth ==
  /\ StartAnchorRun
  /\ similarity_group2' = None
  /\ UNCHANGED <<threshold2, similarity_groups2, opened_by2>>

CompareBoth ==
  /\ CompareRun
  /\ LET score == similarity_index'
         label == GroupLabel(similarity_group2, similarity_groups2)
     IN IF Qualifies(score, threshold2)
        THEN /\ similarity_group2' = label
             /\ similarity_groups2' =
                  AppendPair(similarity_groups2, label,
                             basename(image_files[i + 1]),
                             basename(image_files[j + 1]), score)
             /\ opened_by2' = OpenedAfter(similarity_groups2, label, opened_by2, i)
        ELSE UNCHANGED <<similarity_group2, similarity_groups2, opened_by2>>
  /\ UNCHANGED threshold2

DecodeFailBoth == DecodeFailRun /\ UNCHANGED run2vars
AdvanceProgressBoth == AdvanceProgressRun /\ UNCHANGED run2vars
WriteReportBoth == WriteReportRun /\ UNCHANGED run2vars
WriteFailBoth == WriteFailRun /\ UNCHANGED run2vars

NextBoth ==
  \/ StartAnchorBoth
  \/ CompareBoth
  \/ DecodeFailBoth
  \/ AdvanceProgressBoth
  \/ WriteReportBoth
  \/ WriteFailBoth

SpecBoth == InitBoth /\ [][NextBoth]_vars

\* ============================================================ properties
Zero == <<0, 1>>
One == <<1, 1>>
FracEq(a, b) == a[1] * b[2] = b[1] * a[2]
\* the largest score line 56 can produce: all HashBits bits differ
MaxScore == <<HashBits, Divisor>>

\* the loop of lines 52-74 has run to its end
LoopDone == pc \in {"done", "io_error"}
Terminated == pc \in {"done", "io_error", "aborted"}

\* the score of the pair (a, b) of 0-based indices, both decodable
RawOf(a, b) == HashDiff(disk[image_files[a + 1]].hash, disk[image_files[b + 1]].hash)
ScoreOf(a, b) == <<RawOf(a, b), Divisor>>
AllDecode == \A k \in 1..N : disk[image_files[k]].ok
CallFails(c) == ~disk[image_files[c[1] + 1]].ok \/ ~disk[image_files[c[2] + 1]].ok

IsPrefix(s, t) == Len(s) <= Len(t) /\ SubSeq(t, 1, Len(s)) = s

RECURSIVE IsSubseq(_, _)
IsSubseq(s, t) ==
  IF s = <<>> THEN TRUE
  ELSE IF t = <<>> THEN FALSE
  ELSE IF Head(s) = Head(t) THEN IsSubseq(Tail(s), Tail(t))
  ELSE IsSubseq(s, Tail(t))

\* the pairs (a, b), a < b < n, in row-major order starting at (a, b)
RECURSIVE RowMajorFrom(_, _, _)
RowMajorFrom(a, b, n) ==
  IF a >= n THEN <<>>
  ELSE IF b >= n THEN RowMajorFrom(a + 1, a + 2, n)
  ELSE <<<<a, b>>>> \o RowMajorFrom(a, b + 1, n)
RowMajor(n) == RowMajorFrom(0, 1, n)

\* the entries the partners b, b+1, ... of anchor a contribute at threshold t
RECURSIVE EntriesFrom(_, _, _)
EntriesFrom(a, b, t) ==
  IF b >= N THEN <<>>
  ELSE (IF FracGE(ScoreOf(a, b), t)
        THEN << <<basename(image_files[a + 1]), ScoreOf(a, b)>>,
                <<basename(image_files[b + 1]), ScoreOf(a, b)>> >>
        ELSE <<>>) \o EntriesFrom(a, b + 1, t)
PartnersOf(a, t) == {b \in (a + 1)..(N - 1) : FracGE(ScoreOf(a, b), t)}

GroupsOf(opened, a) == {k \in 1..Len(opened) : opened[k] = a}
NamesIn(images) == {images[p][1] : p \in 1..Len(images)}

RECURSIVE TotalEntries(_)
TotalEntries(groups) ==
  IF groups = <<>> THEN 0
  ELSE Len(Head(groups).images) + TotalEntries(Tail(groups))

\* C1: at a finished run, any two images with identical fingerprints have
\* normalized score 0 and, when the threshold is > 0, some group holds both.
C1_IdenticalGrouped ==
  pc = "done" =>
    \A a \in 0..(N - 1) : \A b \in (a + 1)..(N - 1) :
      RawOf(a, b) = 0 =>
        /\ FracEq(ScoreOf(a, b), Zero)
        /\ FracLT(Zero, similarity_threshold) =>
             \E k \in 1..Len(similarity_groups) :
               \E p, q \in 1..Len(similarity_groups[k].images) :
                 /\ p # q
                 /\ similarity_groups[k].images[p][1] = basename(image_files[a + 1])
                 /\ similarity_groups[k].images[q][1] = basename(image_files[b + 1])

\* C2: the normalized score just computed equals raw distance / HashBits: it
\* lies in [0,1], is 0 exactly for identical fingerprints and is 1 when all
\* HashBits bits differ.
C2_NormalizedByL ==
  similarity_index # None =>
    LET c == calls[Len(calls)]
        raw == RawOf(c[1], c[2])
    IN /\ FracEq(similarity_index, <<raw, HashBits>>)
       /\ FracGE(similarity_index, Zero)
       /\ FracGE(One, similarity_index)
       /\ FracEq(similarity_index, Zero) <=> raw = 0
       /\ raw = HashBits => FracEq(similarity_index, One)

\* C3: when the pass is complete, an anchor without a qualifying partner has
\* no group, and an anchor with qualifying partners j1 < ... < jk has exactly
\* one group, whose entries are (name_i, s), (name_j, s) per partner in
\* ascending order: 2k entries.
C3_GroupPerAnchor ==
  LoopDone =>
    /\ Len(opened_by) = Len(similarity_groups)
    /\ \A a \in 0..(N - 1) :
         LET ks == GroupsOf(opened_by, a)
             k == Cardinality(PartnersOf(a, similarity_threshold))
         IN IF k = 0 THEN ks = {}
            ELSE /\ Cardinality(ks) = 1
                 /\ \A g \in ks :
                      /\ similarity_groups[g].images =
                           EntriesFrom(a, a + 1, similarity_threshold)
                      /\ Len(similarity_groups[g].images) = 2 * k
C3_Witness ==
  /\ pc = "done"
  /\ N = 3
  /\ Len(similarity_groups) = 1
  /\ opened_by[1] = 0
  /\ Len(similarity_groups[1].images) = 4

\* C4: a comparison whose decode fails is the last call ever made, the run is
\* aborted there and the report file is never opened.
C4_AbortNoReport ==
  \A k \in 1..Len(calls) :
    CallFails(calls[k]) =>
      /\ pc = "aborted"
      /\ k = Len(calls)
      /\ csvfile = NotOpened
C4_Witness ==
  /\ pc = "aborted"
  /\ Len(calls) >= 2
  /\ similarity_groups # <<>>

\* C5 as stated: an unwritable output path is reported before the first call
\* to calculate_similarity_index.
C5_ErrorBeforeCompare ==
  pc = "io_error" => calls = <<>>
\* C5 amended: an unwritable output path is reported when the report is
\* opened after the pass: all N(N-1)/2 calls precede the error, the report
\* stays unopened, and the groups are complete.
C5_ErrorAfterCompare ==
  pc = "io_error" =>
    /\ ~writable
    /\ calls = RowMajor(N)
    /\ csvfile = NotOpened
    /\ i = N
C5_Witness ==
  /\ pc = "io_error"
  /\ Len(calls) = 3

\* C6: the calls made are always a prefix of the row-major enumeration of the
\* pairs i < j (never (i,i), never j < i); a run without decode error
\* terminates having made exactly these N(N-1)/2 calls; with N <= 1 there is
\* no call and no group.
C6_AllPairsOnce ==
  /\ [](IsPrefix(calls, RowMajor(N)))
  /\ [](N <= 1 => calls = <<>> /\ similarity_groups = <<>>)
  /\ [](LoopDone => calls = RowMajor(N) /\ 2 * Len(calls) = N * (N - 1))
  /\ ((N <= 1 \/ AllDecode) ~> LoopDone)
  /\ <>Terminated
C6_Witness ==
  /\ pc = "done"
  /\ N = 3
  /\ calls = <<<<0, 1>>, <<0, 2>>, <<1, 2>>>>

\* C7: with the same images and thresholds t1 < t2 (similarity_threshold <
\* threshold2), a compared pair that qualifies at t2 qualifies at t1, and the
\* group opened by an anchor at t2 is a subsequence of the group the same
\* anchor opened at t1.
C7_Monotone ==
  /\ \A k \in 1..Len(calls) :
       ~CallFails(calls[k]) =>
         (Qualifies(ScoreOf(calls[k][1], calls[k][2]), threshold2)
            => Qualifies(ScoreOf(calls[k][1], calls[k][2]), similarity_threshold))
  /\ Len(opened_by2) = Len(similarity_groups2)
  /\ Len(opened_by) = Len(similarity_groups)
  /\ \A k2 \in 1..Len(similarity_groups2) :
       \E k1 \in 1..Len(similarity_groups) :
         /\ opened_by[k1] = opened_by2[k2]
         /\ IsSubseq(similarity_groups2[k2].images, similarity_groups[k1].images)
  /\ TotalEntries(similarity_groups2) <= TotalEntries(similarity_groups)
C7_Witness ==
  /\ pc = "done"
  /\ Len(similarity_groups) = 2
  /\ Len(similarity_groups2) = 1
  /\ opened_by2[1] = 1
  /\ Len(similarity_groups2[1].images) = 2

\* C8: a finished run with threshold 0 and N >= 2 has every compared pair as
\* an edge and every image in some group; a finished run with threshold 1, or
\* any threshold above the largest possible score, has no group and a report
\* of the header row only.
C8_ThresholdBounds ==
  pc = "done" =>
    /\ (FracEq(similarity_threshold, Zero) /\ N >= 2) =>
         /\ TotalEntries(similarity_groups) = N * (N - 1)
         /\ Len(similarity_groups) = N - 1
         /\ \A k \in 1..N :
              \E g \in 1..Len(similarity_groups) :
                basename(image_files[k]) \in NamesIn(similarity_groups[g].images)
    /\ (FracEq(similarity_threshold, One)
          \/ FracLT(MaxScore, similarity_threshold)) =>
         /\ similarity_groups = <<>>
         /\ csvfile = [opened |-> TRUE, rows |-> <<Header>>]
C8_Witness ==
  /\ pc = "done"
  /\ FracEq(similarity_threshold, Zero)
  /\ N = 3
  /\ \E a \in 0..2 : \E b \in 0..2 : a < b /\ RawOf(a, b) = 0

\* C9: the labels are always "Similarity Group 1..K" in order, given in
\* increasing anchor order, every group is non-empty, and a step changes a
\* group only by appending to it while the anchor that opened it is the
\* current i; groups are never removed or relabelled.
C9_LabelsAndGrowth ==
  /\ [](/\ Len(opened_by) = Len(similarity_groups)
        /\ \A k \in 1..Len(similarity_groups) :
             /\ similarity_groups[k].label = Label(k)
             /\ similarity_groups[k].images # <<>>
             /\ opened_by[k] <= i
             /\ \A m \in 1..(k - 1) : opened_by[m] < opened_by[k]
        /\ (pc = "inner" /\ similarity_group # None) =>
             /\ HasKey(similarity_groups, similarity_group)
             /\ similarity_group = Label(Len(similarity_groups))
             /\ opened_by[Len(opened_by)] = i)
  /\ [][/\ Len(similarity_groups') >= Len(similarity_groups)
        /\ \A k \in 1..Len(similarity_groups) :
             /\ similarity_groups'[k].label = similarity_groups[k].label
             /\ opened_by'[k] = opened_by[k]
             /\ IsPrefix(similarity_groups[k].images, similarity_groups'[k].images)
             /\ similarity_groups'[k] # similarity_groups[k] =>
                  (opened_by[k] = i /\ i' = i)
        /\ \A k \in (Len(similarity_groups) + 1)..Len(similarity_groups') :
             opened_by'[k] = i /\ i' = i]_vars
C9_Witness ==
  /\ pc = "done"
  /\ Len(similarity_groups) = 2
  /\ opened_by = <<0, 1>>
  /\ Len(similarity_groups[1].images) = 4

\* C10: progress advances by one exactly when the j loop of an i is
\* exhausted and never in a comparison step; every ETA computation has
\* 1 <= completed <= total = N, completed = i + 1 and a non-zero divisor; the
\* step that advances progress leaves the groups alone.
C10_ProgressPerAnchor ==
  /\ [](/\ Len(eta_calls) = progress
        /\ progress = i
        /\ N = 0 => eta_calls = <<>>
        /\ \A k \in 1..Len(eta_calls) :
             /\ eta_calls[k].completed >= 1
             /\ eta_calls[k].completed <= eta_calls[k].total
             /\ eta_calls[k].total = N
             /\ eta_calls[k].completed = eta_calls[k].i + 1
             /\ eta_calls[k].completed = k
             /\ eta_calls[k].divided)
  /\ [][/\ calls' # calls => progress' = progress
        /\ (progress' # progress \/ eta_calls' # eta_calls) =>
             /\ progress' = progress + 1
             /\ Len(eta_calls') = Len(eta_calls) + 1
             /\ pc = "inner" /\ j >= N
             /\ similarity_groups' = similarity_groups
             /\ similarity_group' = similarity_group]_vars
C10_Witness ==
  /\ pc = "done"
  /\ Len(eta_calls) = 3
  /\ similarity_groups # <<>>

====
